---------------------------- MODULE Spec2Model ----------------------------
(***************************************************************************)
(* Backslash escape / unescape (src/src/index.ts).                         *)
(*                                                                         *)
(* A JavaScript string is a sequence of UTF-16 code units, so a string is  *)
(* modelled as a sequence of integers in 0..65535.  A code point >= 65536  *)
(* of the raw text occupies two code units (a surrogate pair); str[i] and  *)
(* charCodeAt(0) of the source see one code unit at a time.                *)
(*                                                                         *)
(* Character codes used below:                                             *)
(*   8 \b   9 \t   10 \n   12 \f   13 \r   34 "   39 '   92 \              *)
(*   48..57 0-9   65..70 A-F   97..102 a-f                                 *)
(*   85 U   110 n   114 r   116 t   117 u   120 x   113 q   90 Z   71 G    *)
(***************************************************************************)
EXTENDS Integers, Sequences, FiniteSets

VARIABLES input, style, pc, str, i, result, count, escaped, iters

vars == <<input, style, pc, str, i, result, count, escaped, iters>>

(***************************************************************************)
(* Bounds of the checked inputs.                                           *)
(***************************************************************************)
MaxLen == 2
MaxTokens == 2

(***************************************************************************)
(* Program constants.                                                      *)
(***************************************************************************)
BACKSLASH == 92
BMP_LIMIT == 65536
HIGH_BASE == 55296
LOW_BASE == 56320
PAIR_SIZE == 1024
MAX_CODE_POINT == 1114111

Styles == {"json", "javascript", "python", "c"}

(***************************************************************************)
(* JavaScript string primitives.                                           *)
(***************************************************************************)
\* str[k] with the source's 0-based index
At(s, k) == s[k + 1]

\* str.substring(a, b) for 0 <= a <= b; b is clipped to the length
substring(s, a, b) == SubSeq(s, a + 1, IF b > Len(s) THEN Len(s) ELSE b)

\* the UTF-16 code units of one code point
EncodeUTF16(cp) ==
    IF cp < BMP_LIMIT
    THEN <<cp>>
    ELSE << ((cp - BMP_LIMIT) \div PAIR_SIZE) + HIGH_BASE,
            ((cp - BMP_LIMIT) % PAIR_SIZE) + LOW_BASE >>

\* the string holding a sequence of code points
RECURSIVE ToUTF16(_)
ToUTF16(cps) ==
    IF cps = <<>> THEN <<>>
    ELSE EncodeUTF16(Head(cps)) \o ToUTF16(Tail(cps))

HexCharUpper(d) == IF d < 10 THEN 48 + d ELSE 55 + d

\* one digit of Number.prototype.toString(16): lowercase
HexChar(d) == IF d < 10 THEN 48 + d ELSE 87 + d

\* code.toString(16)
RECURSIVE toString16(_)
toString16(n) ==
    IF n < 16 THEN <<HexChar(n)>>
    ELSE Append(toString16(n \div 16), HexChar(n % 16))

padStartNone(s, n) == s

\* s.padStart(n, "0")
RECURSIVE padStart(_, _)
padStart(s, n) == IF Len(s) >= n THEN s ELSE padStart(<<48>> \o s, n)

isHexDigitLax(c) == c \in 48..57 \/ c \in 65..90 \/ c \in 97..122

\* the character class [0-9a-fA-F]
isHexDigit(c) == c \in 48..57 \/ c \in 65..70 \/ c \in 97..102

\* /^[0-9a-fA-F]+$/.test(s)
allHex(s) == Len(s) >= 1 /\ \A k \in 1..Len(s) : isHexDigit(s[k])

\* /^[0-9a-fA-F]{2}$/.test(s)
twoHex(s) == Len(s) = 2 /\ \A k \in 1..Len(s) : isHexDigit(s[k])

hexValue(c) == IF c <= 57 THEN c - 48 ELSE IF c <= 70 THEN c - 55 ELSE c - 87

\* parseInt(s, 16) of a string of hex digits
RECURSIVE parseInt16(_)
parseInt16(s) ==
    IF s = <<>> THEN 0
    ELSE parseInt16(SubSeq(s, 1, Len(s) - 1)) * 16 + hexValue(s[Len(s)])

fromCodePointSanitized(code) ==
    IF code > MAX_CODE_POINT
    THEN [threw |-> TRUE, units |-> <<>>]
    ELSE IF code \in HIGH_BASE..(HIGH_BASE + 2047)
         THEN [threw |-> FALSE, units |-> <<65533>>]
         ELSE [threw |-> FALSE, units |-> EncodeUTF16(code)]

\* String.fromCodePoint(code): a RangeError above U+10FFFF, else the code units
fromCodePoint(code) ==
    IF code > MAX_CODE_POINT
    THEN [threw |-> TRUE, units |-> <<>>]
    ELSE [threw |-> FALSE, units |-> EncodeUTF16(code)]

\* String.fromCharCode(code): one code unit
fromCharCode(code) == <<code % BMP_LIMIT>>

(***************************************************************************)
(* escapeString: the body of the for loop, for one code unit.              *)
(***************************************************************************)
escapesSingleQuoteLax(s) == s = "python" \/ s = "c" \/ s = "javascript"

escapesSingleQuote(s) == s = "python" \/ s = "c"

needsNumericOffByOne(code) == code < 32 \/ code > 127

needsNumeric(code) == code < 32 \/ code > 126

numericEscape(code, s) ==
    IF s = "json" \/ s = "javascript"
    THEN IF code < BMP_LIMIT
         THEN <<BACKSLASH, 117>> \o padStart(toString16(code), 4)
         ELSE <<BACKSLASH, 117>>
                \o padStart(toString16(((code - BMP_LIMIT) \div PAIR_SIZE) + HIGH_BASE), 4)
                \o <<BACKSLASH, 117>>
                \o padStart(toString16(((code - BMP_LIMIT) % PAIR_SIZE) + LOW_BASE), 4)
    ELSE IF s = "python"
    THEN IF code < BMP_LIMIT
         THEN <<BACKSLASH, 117>> \o padStart(toString16(code), 4)
         ELSE <<BACKSLASH, 85>> \o padStart(toString16(code), 8)
    ELSE IF s = "c"
    THEN IF code < 256
         THEN <<BACKSLASH, 120>> \o padStart(toString16(code), 2)
         ELSE <<BACKSLASH, 117>> \o padStart(toString16(code), 4)
    ELSE <<>>

escapeChar(code, s) ==
    CASE code = BACKSLASH -> <<BACKSLASH, BACKSLASH>>
      [] code = 10 -> <<BACKSLASH, 110>>
      [] code = 13 -> <<BACKSLASH, 114>>
      [] code = 9 -> <<BACKSLASH, 116>>
      [] code = 8 -> <<BACKSLASH, 98>>
      [] code = 12 -> <<BACKSLASH, 102>>
      [] code = 34 -> <<BACKSLASH, 34>>
      [] code = 39 -> IF escapesSingleQuote(s) THEN <<BACKSLASH, 39>> ELSE <<code>>
      [] OTHER -> IF needsNumeric(code) THEN numericEscape(code, s) ELSE <<code>>

(***************************************************************************)
(* unescapeString: the body of the while loop at cursor k.                 *)
(* out: what is appended to result; adv: how far the cursor moves;         *)
(* threw: String.fromCodePoint raised a RangeError.                        *)
(***************************************************************************)
emit(out, adv) == [out |-> out, adv |-> adv, threw |-> FALSE]

literal(s, k) == emit(<<At(s, k)>>, 1)

unicodeEscape(s, k, hexLength) ==
    IF k + 2 + hexLength <= Len(s)
    THEN LET hexCode == substring(s, k + 2, k + 2 + hexLength)
         IN  IF allHex(hexCode)
             THEN LET ch == fromCodePoint(parseInt16(hexCode))
                  IN  [out |-> ch.units, adv |-> 2 + hexLength, threw |-> ch.threw]
             ELSE literal(s, k)
    ELSE literal(s, k)

hexEscape(s, k) ==
    IF k + 3 < Len(s)
    THEN LET hexCode == substring(s, k + 2, k + 4)
         IN  IF twoHex(hexCode)
             THEN emit(fromCharCode(parseInt16(hexCode)), 4)
             ELSE literal(s, k)
    ELSE literal(s, k)

unescapeStep(s, k) ==
    IF At(s, k) = BACKSLASH /\ k + 1 < Len(s)
    THEN LET next == At(s, k + 1)
         IN  CASE next = BACKSLASH -> emit(<<BACKSLASH>>, 2)
               [] next = 110 -> emit(<<10>>, 2)
               [] next = 114 -> emit(<<13>>, 2)
               [] next = 116 -> emit(<<9>>, 2)
               [] next = 98 -> emit(<<8>>, 2)
               [] next = 102 -> emit(<<12>>, 2)
               [] next = 34 -> emit(<<34>>, 2)
               [] next = 39 -> emit(<<39>>, 2)
               [] next = 117 -> unicodeEscape(s, k, 4)
               [] next = 85 -> unicodeEscape(s, k, 8)
               [] next = 120 -> hexEscape(s, k)
               [] OTHER -> literal(s, k)
    ELSE literal(s, k)

(***************************************************************************)
(* countEscapedCharacters: the condition of the loop body.                 *)
(***************************************************************************)
isEscapableNoQuote(code) ==
    \/ code = BACKSLASH \/ code = 10 \/ code = 13 \/ code = 9 \/ code = 8
    \/ code = 12 \/ code = 34
    \/ code < 32 \/ code > 126

isEscapable(code) ==
    \/ code = BACKSLASH \/ code = 10 \/ code = 13 \/ code = 9 \/ code = 8
    \/ code = 12 \/ code = 34 \/ code = 39
    \/ code < 32 \/ code > 126

(***************************************************************************)
(* Inputs.                                                                 *)
(***************************************************************************)
\* code points of the raw texts: the named characters, an unnamed control
\* character (7), DEL (127), 233 (below 256), 8364 (above 255), 128512
\* (beyond the Basic Multilingual Plane), and printable characters that are
\* hex digits or escape letters (0 b n u x)
CodePoints == {92, 10, 13, 9, 8, 12, 34, 39, 7, 127, 233, 8364, 128512,
               48, 98, 110, 117, 120}

SeqsUpTo(S, n) == UNION {[1..m -> S] : m \in 0..n}

\* the raw text of the control-character example
ControlExample == <<10, 13, 9, 8, 12>>

RawInputs == SeqsUpTo(CodePoints, MaxLen) \cup {ControlExample}

\* runs of characters placed after \u, \U and \x: "", "e", "e9", "E9", "ZZ",
\* "9G", "00e", "00e9", "d83d", "12G4", "0001f60", "0001f600", "0010ffff",
\* "00110000", "7fffffff", "0000G000"
HexRuns == { <<>>, <<101>>, <<101, 57>>, <<69, 57>>, <<90, 90>>, <<57, 71>>,
             <<48, 48, 101>>, <<48, 48, 101, 57>>, <<100, 56, 51, 100>>,
             <<49, 50, 71, 52>>,
             <<48, 48, 48, 49, 102, 54, 48>>,
             <<48, 48, 48, 49, 102, 54, 48, 48>>,
             <<48, 48, 49, 48, 102, 102, 102, 102>>,
             <<48, 48, 49, 49, 48, 48, 48, 48>>,
             <<55, 102, 102, 102, 102, 102, 102, 102>>,
             <<48, 48, 48, 48, 71, 48, 48, 48>> }

\* \ n q " 0 and the pairs \q \n
PlainTokens == { <<92>>, <<110>>, <<113>>, <<34>>, <<48>>, <<92, 113>>, <<92, 110>> }

EscapeTokens == { <<92, l>> \o h : l \in {117, 85, 120}, h \in HexRuns }

Tokens == PlainTokens \cup EscapeTokens

RECURSIVE Flatten(_)
Flatten(ss) == IF ss = <<>> THEN <<>> ELSE Head(ss) \o Flatten(Tail(ss))

EscapedInputs == { Flatten(ts) : ts \in SeqsUpTo(Tokens, MaxTokens) }

(***************************************************************************)
(* The state machine.  A behaviour is either the pipeline                  *)
(*   countEscapedCharacters(s); e = escapeString(s, style);                *)
(*   unescapeString(e)                                                     *)
(* on a raw text s, or one call unescapeString(s) on an escaped text s.    *)
(* pc is the function being executed; "done" is the return of              *)
(* unescapeString and "threw" its exit by an uncaught RangeError.          *)
(* input is the text the behaviour started from; iters counts the          *)
(* iterations of the while loop of unescapeString.                         *)
(***************************************************************************)
Init ==
    /\ count = 0
    /\ i = 0
    /\ result = <<>>
    /\ escaped = <<>>
    /\ iters = 0
    /\ \/ /\ input \in RawInputs
          /\ style \in Styles
          /\ str = ToUTF16(input)
          /\ pc = "count"
       \/ /\ input \in EscapedInputs
          /\ style = "none"
          /\ str = input
          /\ pc = "unescape"

CountIter ==
    /\ pc = "count"
    /\ i < Len(str)
    /\ count' = IF isEscapable(At(str, i)) THEN count + 1 ELSE count
    /\ i' = i + 1
    /\ UNCHANGED <<input, style, pc, str, result, escaped, iters>>

CountReturn ==
    /\ pc = "count"
    /\ ~(i < Len(str))
    /\ pc' = "escape"
    /\ i' = 0
    /\ result' = <<>>
    /\ UNCHANGED <<input, style, str, count, escaped, iters>>

EscapeIter ==
    /\ pc = "escape"
    /\ i < Len(str)
    /\ result' = result \o escapeChar(At(str, i), style)
    /\ i' = i + 1
    /\ UNCHANGED <<input, style, pc, str, count, escaped, iters>>

EscapeReturn ==
    /\ pc = "escape"
    /\ ~(i < Len(str))
    /\ escaped' = result
    /\ pc' = "unescape"
    /\ str' = result
    /\ i' = 0
    /\ result' = <<>>
    /\ UNCHANGED <<input, style, count, iters>>

UnescapeIter ==
    /\ pc = "unescape"
    /\ i < Len(str)
    /\ LET step == unescapeStep(str, i)
       IN  /\ ~step.threw
           /\ result' = result \o step.out
           /\ i' = i + step.adv
    /\ iters' = iters + 1
    /\ UNCHANGED <<input, style, pc, str, count, escaped>>

UnescapeThrow ==
    /\ pc = "unescape"
    /\ i < Len(str)
    /\ unescapeStep(str, i).threw
    /\ pc' = "threw"
    /\ iters' = iters + 1
    /\ UNCHANGED <<input, style, str, i, result, count, escaped>>

UnescapeReturn ==
    /\ pc = "unescape"
    /\ ~(i < Len(str))
    /\ pc' = "done"
    /\ UNCHANGED <<input, style, str, i, result, count, escaped, iters>>

Next ==
    \/ CountIter
    \/ CountReturn
    \/ EscapeIter
    \/ EscapeReturn
    \/ UnescapeIter
    \/ UnescapeThrow
    \/ UnescapeReturn

Spec == Init /\ [][Next]_vars

TypeOK ==
    /\ style \in Styles \cup {"none"}
    /\ pc \in {"count", "escape", "unescape", "done", "threw"}
    /\ i \in Nat
    /\ count \in Nat
    /\ iters \in Nat

(***************************************************************************)
(* Vocabulary of the properties.                                           *)
(***************************************************************************)
\* the behaviour is the pipeline on a raw text (not a lone unescapeString)
IsPipeline == style \in Styles

\* the string of the raw text the behaviour started from
Raw == ToUTF16(input)

\* n written as exactly w lowercase hex digits
Hex(n, w) ==
    [k \in 1..w |->
        LET d == (n \div (16 ^ (w - k))) % 16
        IN  IF d < 10 THEN 48 + d ELSE 87 + d]

IsHexChar(c) == c \in (48..57) \cup (65..70) \cup (97..102)

IsPrintable(c) == c >= 32 /\ c <= 126

\* backslash, newline, CR, tab, backspace, form feed, double and single quote
NamedChars == {92, 10, 13, 9, 8, 12, 34, 39}

\* outside printable ASCII and without a named escape
IsNumericKind(c) == (c < 32 \/ c > 126) /\ c \notin NamedChars

\* number of code units before the k-th code point of the raw text
UnitStart(k) == Len(ToUTF16(SubSeq(input, 1, k - 1)))

\* index of the code point that code unit u (0-based) of Raw belongs to
CpIndexAt(u) ==
    CHOOSE k \in 1..Len(input) : UnitStart(k) <= u /\ u < UnitStart(k + 1)

\* one iteration of the loop of escapeString is being taken
EscapeIterStep == pc = "escape" /\ pc' = "escape" /\ i' = i + 1

\* escapeString returns
EscapeReturnStep == pc = "escape" /\ pc' = "unescape"

\* one iteration of the loop of unescapeString is being taken
UnescapeIterStep == pc = "unescape" /\ pc' = "unescape" /\ iters' = iters + 1

\* a surrogate pair, i.e. a code point beyond the Basic Multilingual Plane
HasAstral(cps) == \E k \in 1..Len(cps) : cps[k] >= 65536

(***************************************************************************)
(* C1: no operation throws: unescapeString never exits by an exception,    *)
(* whatever the input (escapeString and countEscapedCharacters have no     *)
(* throwing step at all).                                                  *)
(***************************************************************************)
C1_NeverThrows == pc # "threw"

(***************************************************************************)
(* C2: with style python, escapeString emits one escape per code point:    *)
(* a code point >= 0x10000 yields a single \U and 8 lowercase hex digits   *)
(* (nothing more for its second code unit), a non-printable code point     *)
(* below 0x10000 without a named escape yields \u and 4 hex digits.        *)
(***************************************************************************)
C2_PythonOneEscapePerCodePoint ==
    [][ (EscapeIterStep /\ style = "python") =>
          LET k == CpIndexAt(i)
              cp == input[k]
              part == i - UnitStart(k)
          IN  IsNumericKind(cp) =>
                IF cp < 65536
                THEN result' = result \o <<92, 117>> \o Hex(cp, 4)
                ELSE IF part = 0
                     THEN result' = result \o <<92, 85>> \o Hex(cp, 8)
                     ELSE result' = result ]_vars

(***************************************************************************)
(* C3: round trip: for every style and every raw text s, the pipeline      *)
(* ends by a normal return of unescapeString with                          *)
(* unescapeString(escapeString(s, style)) = s.                             *)
(***************************************************************************)
C3_RoundTrip ==
    (IsPipeline /\ pc \in {"done", "threw"}) => (pc = "done" /\ result = Raw)

\* style c: e-acute is emitted as \xe9 and directly followed by the digit 0
C3_Witness ==
    /\ pc = "done"
    /\ style = "c"
    /\ input = <<233, 48>>
    /\ escaped = <<92, 120, 101, 57, 48>>
    /\ result = <<233, 48>>

(***************************************************************************)
(* C4: with style json or javascript a character outside printable ASCII   *)
(* without a named escape is emitted as \u and exactly 4 lowercase         *)
(* zero-padded hex digits when below 0x10000; a code point >= 0x10000 is   *)
(* emitted as two such sequences, the high surrogate                       *)
(* ((v - 0x10000) div 0x400) + 0xD800 and then the low surrogate           *)
(* ((v - 0x10000) mod 0x400) + 0xDC00.                                     *)
(***************************************************************************)
C4_JsonUnicodeEscapes ==
    [][ (EscapeIterStep /\ style \in {"json", "javascript"}) =>
          LET k == CpIndexAt(i)
              cp == input[k]
              part == i - UnitStart(k)
          IN  IsNumericKind(cp) =>
                IF cp < 65536
                THEN result' = result \o <<92, 117>> \o Hex(cp, 4)
                ELSE IF part = 0
                     THEN result' = result \o <<92, 117>>
                            \o Hex(((cp - 65536) \div 1024) + 55296, 4)
                     ELSE result' = result \o <<92, 117>>
                            \o Hex(((cp - 65536) % 1024) + 56320, 4) ]_vars

\* U+1F600 has been escaped to \ud83d\ude00
C4_Witness ==
    /\ pc = "unescape"
    /\ style = "json"
    /\ input = <<128512>>
    /\ escaped = <<92, 117, 100, 56, 51, 100, 92, 117, 100, 101, 48, 48>>

(***************************************************************************)
(* C5: named escapes take precedence in every style: backslash, newline,   *)
(* CR, tab, backspace, form feed and double quote become their             *)
(* two-character backslash forms (the five control characters yield ten    *)
(* characters); a single quote becomes \' exactly for python and c and is  *)
(* emitted unchanged for json and javascript.                              *)
(***************************************************************************)
C5_NamedEscapes ==
    [][ /\ EscapeIterStep =>
            LET c == At(str, i)
            IN  /\ c = 92 => result' = result \o <<92, 92>>
                /\ c = 10 => result' = result \o <<92, 110>>
                /\ c = 13 => result' = result \o <<92, 114>>
                /\ c = 9 => result' = result \o <<92, 116>>
                /\ c = 8 => result' = result \o <<92, 98>>
                /\ c = 12 => result' = result \o <<92, 102>>
                /\ c = 34 => result' = result \o <<92, 34>>
                /\ c = 39 =>
                     IF style \in {"python", "c"}
                     THEN result' = result \o <<92, 39>>
                     ELSE result' = result \o <<39>>
        /\ (EscapeReturnStep /\ input = ControlExample) =>
            escaped' = <<92, 110, 92, 114, 92, 116, 92, 98, 92, 102>> ]_vars

\* the five control characters have been escaped to ten characters
C5_Witness ==
    /\ pc = "unescape"
    /\ style = "javascript"
    /\ input = ControlExample
    /\ Len(escaped) = 10

(***************************************************************************)
(* C6: every character of the escaped text is printable ASCII (32..126);   *)
(* with style c a non-printable character without a named escape is        *)
(* emitted as \u and exactly 4 hex digits when its value is >= 256 and as  *)
(* \x and exactly 2 hex digits when it is below 256.                       *)
(***************************************************************************)
C6_PrintableOutput ==
    [][ /\ EscapeIterStep =>
            /\ \A k \in 1..Len(result') : IsPrintable(result'[k])
            /\ LET c == At(str, i)
               IN  (style = "c" /\ IsNumericKind(c)) =>
                     IF c >= 256
                     THEN result' = result \o <<92, 117>> \o Hex(c, 4)
                     ELSE result' = result \o <<92, 120>> \o Hex(c, 2)
        /\ EscapeReturnStep =>
            \A k \in 1..Len(escaped') : IsPrintable(escaped'[k]) ]_vars

\* style c: the euro sign became \u20ac and DEL became \x7f
C6_Witness ==
    /\ pc = "unescape"
    /\ style = "c"
    /\ input = <<8364, 127>>
    /\ escaped = <<92, 117, 50, 48, 97, 99, 92, 120, 55, 102>>

(***************************************************************************)
(* C7: count consistency: for python and c the count equals the number of  *)
(* characters escapeString renders as something other than the character   *)
(* itself; for json and javascript it exceeds that number by exactly the   *)
(* number of single quotes; it is always between 0 and the length.         *)
(***************************************************************************)
Altered(s, st) == Cardinality({k \in 1..Len(s) : escapeChar(s[k], st) # <<s[k]>>})

Quotes(s) == Cardinality({k \in 1..Len(s) : s[k] = 39})

C7_CountConsistency ==
    (IsPipeline /\ pc # "count") =>
        /\ count >= 0 /\ count <= Len(Raw)
        /\ style \in {"python", "c"} => count = Altered(Raw, style)
        /\ style \in {"json", "javascript"} =>
             count = Altered(Raw, style) + Quotes(Raw)

\* json: a single quote and e-acute are both counted, only e-acute is escaped
C7_Witness ==
    /\ pc = "done"
    /\ style = "json"
    /\ input = <<39, 233>>
    /\ count = 2
    /\ escaped = <<39, 92, 117, 48, 48, 101, 57>>

(***************************************************************************)
(* C8: malformed-escape passthrough: on a backslash that is the last       *)
(* character, or is followed by a character that starts no escape, or by   *)
(* u / U / x without the required 4 / 8 / 2 hex digits inside the string,  *)
(* unescapeString emits exactly one backslash and advances by exactly 1;   *)
(* an input in which every backslash is of this kind is returned           *)
(* unchanged.                                                              *)
(***************************************************************************)
HexRunAt(s, from, n) ==
    /\ from + n <= Len(s)
    /\ \A j \in 0..(n - 1) : IsHexChar(At(s, from + j))

MalformedAt(s, k) ==
    /\ At(s, k) = 92
    /\ \/ k = Len(s) - 1
       \/ /\ k < Len(s) - 1
          /\ LET next == At(s, k + 1)
             IN  \/ next \notin {92, 110, 114, 116, 98, 102, 34, 39, 117, 85, 120}
                 \/ next = 117 /\ ~HexRunAt(s, k + 2, 4)
                 \/ next = 85 /\ ~HexRunAt(s, k + 2, 8)
                 \/ next = 120 /\ ~HexRunAt(s, k + 2, 2)

AllBackslashesMalformed(s) ==
    \A k \in 0..(Len(s) - 1) : At(s, k) = 92 => MalformedAt(s, k)

C8_MalformedPassthrough ==
    [][ /\ (pc = "unescape" /\ i < Len(str) /\ MalformedAt(str, i)) =>
            /\ pc' = "unescape"
            /\ result' = Append(result, 92)
            /\ i' = i + 1
        /\ (pc = "unescape" /\ pc' = "done" /\ AllBackslashesMalformed(str)) =>
            result' = str ]_vars

\* \u12G4 (a non-hex digit in the span) has been returned unchanged
C8_Witness ==
    /\ pc = "done"
    /\ ~IsPipeline
    /\ input = <<92, 117, 49, 50, 71, 52>>
    /\ result = input

(***************************************************************************)
(* C9 as stated: for a raw text x holding a code point >= 0x10000,         *)
(* unescapeString(escapeString(x, "json")) differs from x.                 *)
(***************************************************************************)
C9_AstralRoundTripLossy ==
    (pc = "done" /\ style = "json" /\ HasAstral(input)) => result # Raw

(***************************************************************************)
(* C9 as amended: unescapeString decodes each \u token on its own, one     *)
(* loop iteration and one UTF-16 code unit per token, and does not         *)
(* recombine surrogates; the two surrogate code units side by side are     *)
(* the original code point, so the round trip through style json returns   *)
(* x also when x holds code points >= 0x10000.                             *)
(***************************************************************************)
C9_AstralRoundTripLossless ==
    (pc = "done" /\ style = "json" /\ HasAstral(input)) =>
        /\ result = Raw
        /\ iters = Len(Raw)

\* U+1F600 went through \ud83d\ude00 and came back as its two code units
C9_Witness ==
    /\ pc = "done"
    /\ style = "json"
    /\ input = <<128512>>
    /\ str = <<92, 117, 100, 56, 51, 100, 92, 117, 100, 101, 48, 48>>
    /\ result = <<55357, 56832>>
    /\ iters = 2

(***************************************************************************)
(* C10: the scan of unescapeString terminates inside the input: the        *)
(* cursor stays in 0..length; every loop iteration advances it by 1, 2,    *)
(* 4, 6 or 10, by more than 1 only when the consumed characters lie        *)
(* inside the input; the loop is left only with i = length, after at most  *)
(* length iterations.                                                      *)
(***************************************************************************)
C10_ScanTerminates ==
    [][ pc = "unescape" =>
          /\ i >= 0 /\ i <= Len(str)
          /\ \/ /\ pc' = "unescape"
                /\ i' - i \in {1, 2, 4, 6, 10}
                /\ i' - i > 1 => i' <= Len(str)
                /\ i' <= Len(str)
                /\ iters' = iters + 1
                /\ iters' <= Len(str)
             \/ /\ pc' = "done"
                /\ i = Len(str)
                /\ iters <= Len(str) ]_vars

=============================================================================
